---- MODULE Spec2Model ----
(***************************************************************************)
(* The lazily initialised client registry of src/clients/mod.rs: struct    *)
(* Clients, its accessors (wayland, clipboard, workspaces, music, tray,    *)
(* upower) and the provide() binding generated by register_client!.        *)
(*                                                                         *)
(* A flow is a consumer (a widget context) that calls provide().  An       *)
(* accessor call is split into the positions its code passes through:      *)
(* borrow_mut, the lookup of get_or_insert_with / entry().or_insert_with,  *)
(* the constructor closure, the clone that is returned.  The constructors  *)
(* themselves are external: the model only lets each one complete, panic   *)
(* or never return.                                                        *)
(***************************************************************************)
EXTENDS Naturals, Sequences, FiniteSets

\* ------------------------------------------------------------------ bounds

\* Number of consumer flows that reach the one Registry.
NumFlows == 2

\* Number of accessor calls the flows issue in one run.
MaxCalls == 3

\* Number of distinct music::ClientType values used as sub-keys.
NumClientTypes == 2

Flows == 1..NumFlows

ClientTypes == 1..NumClientTypes

\* ------------------------------------------------------------- the struct

\* Option::None of a slot; a handle (an Arc's allocation) is a number >= 1.
None == 0

\* The fields of Clients that are an Option<Arc<_>> (lines 19-29).
SingleKinds == {"wayland", "workspaces", "clipboard", "tray", "upower"}

\* A slot is <<field, sub-key>>; the sub-key is 0 for an Option field and a
\* ClientType for an entry of the music map.
SingleSlots == {<<k, 0>> : k \in SingleKinds}

MusicSlots == {<<"music", t>> : t \in ClientTypes}

Slots == SingleSlots \cup MusicSlots

WaylandSlot == <<"wayland", 0>>

ClipboardSlot == <<"clipboard", 0>>

WorkspacesSlot == <<"workspaces", 0>>

TraySlot == <<"tray", 0>>

UpowerSlot == <<"upower", 0>>

\* A registry that builds the display-server client when it is created.
new_Eager ==
    [wayland |-> 1, workspaces |-> None, clipboard |-> None,
     music |-> <<>>, tray |-> None, upower |-> None]

\* Clients::new(), i.e. Default: every Option is None and the map is empty.
new ==
    [wayland |-> None, workspaces |-> None, clipboard |-> None,
     music |-> <<>>, tray |-> None, upower |-> None]

VARIABLES
    clients,    \* the Clients struct inside the RefCell
    borrow,     \* the flow that holds the RefMut, 0 when the RefCell is free
    nextId,     \* identity of the next Arc allocation
    clipWl,     \* the wayland handle moved into clipboard::Client::new
    pc,         \* per flow: position in its provide() call
    req,        \* per flow: the slot its call asks for
    cur,        \* per flow: the slot of the accessor it is executing
    wl,         \* per flow: the local `wayland` of clipboard()
    result,     \* per flow: the handle its call returned (None: none yet)
    reqState,   \* per flow: state of the slot when the call was issued
    entry,      \* per flow: clients as they were when the running call borrowed
    log,        \* per flow: constructor events of the current call
    calls,      \* per slot: times its accessor was entered
    ctorCalls,  \* per slot: times its constructor was invoked
    ctorOk,     \* per slot: times its constructor completed
    ctorFail,   \* per slot: times its constructor panicked
    returned,   \* per slot: handles its accessor has returned
    ncalls      \* calls issued so far

vars ==
    <<clients, borrow, nextId, clipWl, pc, req, cur, wl, result, reqState,
      entry, log, calls, ctorCalls, ctorOk, ctorFail, returned, ncalls>>

\* ---------------------------------------------------------- Option and map

\* A map that keeps every backend under one key.
MusicKeyOf_Shared(t) == 1

\* HashMap::entry(k) finds the entry of exactly the key k.
MusicKeyOf(t) == t

\* A lookup that never finds the cached handle (insert for get_or_insert).
IsSome_Never(c, s) == FALSE

\* Option::is_some of a slot, resp. the map holding the key.
IsSome(c, s) ==
    IF s[1] = "music" THEN MusicKeyOf(s[2]) \in DOMAIN c.music
    ELSE c[s[1]] # None

\* The handle a slot holds (None when it holds none).
Get(c, s) ==
    IF s[1] = "music"
    THEN IF MusicKeyOf(s[2]) \in DOMAIN c.music THEN c.music[MusicKeyOf(s[2])] ELSE None
    ELSE c[s[1]]

\* A constructed handle that is handed out but not cached.
Insert_NotCached(c, s, h) == c

\* clipboard() building a display-server client of its own, which the
\* wayland slot never sees.
Insert_PrivateWayland(c, s, h) ==
    IF s[1] = "music"
    THEN [c EXCEPT !.music =
            [t \in (DOMAIN c.music) \cup {s[2]} |->
                IF t = s[2] THEN h ELSE c.music[t]]]
    ELSE IF s[1] = "wayland" /\ borrow # 0 /\ req[borrow][1] = "clipboard" THEN c
    ELSE [c EXCEPT ![s[1]] = h]

\* The insert half of get_or_insert_with / or_insert_with.
Insert(c, s, h) ==
    IF s[1] = "music"
    THEN [c EXCEPT !.music =
            [t \in (DOMAIN c.music) \cup {MusicKeyOf(s[2])} |->
                IF t = MusicKeyOf(s[2]) THEN h ELSE c.music[t]]]
    ELSE [c EXCEPT ![s[1]] = h]

\* clipboard() without its first statement.
FirstCall_Missing(s) == s

\* The accessor that an accessor calls before anything else: clipboard()
\* starts with `let wayland = self.wayland()`.
FirstCall(s) == IF s = ClipboardSlot THEN WaylandSlot ELSE s

Bump(f, s) == [f EXCEPT ![s] = @ + 1]

Range(q) == {q[i] : i \in 1..Len(q)}

\* ------------------------------------------------------------------- Init

Init ==
    /\ clients = new
    /\ borrow = 0
    /\ nextId = 1
    /\ clipWl = None
    /\ pc = [f \in Flows |-> "idle"]
    /\ req = [f \in Flows |-> WaylandSlot]
    /\ cur = [f \in Flows |-> WaylandSlot]
    /\ wl = [f \in Flows |-> None]
    /\ result = [f \in Flows |-> None]
    /\ reqState = [f \in Flows |-> "none"]
    /\ entry = [f \in Flows |-> new]
    /\ log = [f \in Flows |-> <<>>]
    /\ calls = [s \in Slots |-> 0]
    /\ ctorCalls = [s \in Slots |-> 0]
    /\ ctorOk = [s \in Slots |-> 0]
    /\ ctorFail = [s \in Slots |-> 0]
    /\ returned = [s \in Slots |-> {}]
    /\ ncalls = 0

\* ---------------------------------------------------------------- actions

\* The consumer has called provide() before.  Consumers that have not yet
\* called are alike, so they are numbered in the order of their first call.
Called(f) == reqState[f] # "none"

\* A consumer decides to call provide() for the capability bound to slot s.
\* The call runs once the thread that owns the RefCell is free.
Request(f, s) ==
    /\ pc[f] = "idle"
    /\ IF f = 1 THEN TRUE ELSE Called(f - 1)
    /\ ncalls < MaxCalls
    /\ ncalls' = ncalls + 1
    /\ pc' = [pc EXCEPT ![f] = "queued"]
    /\ req' = [req EXCEPT ![f] = s]
    /\ result' = [result EXCEPT ![f] = None]
    /\ log' = [log EXCEPT ![f] = <<>>]
    /\ reqState' = [reqState EXCEPT ![f] =
            IF IsSome(clients, s) THEN "set"
            ELSE IF \E g \in Flows : pc[g] = "ctor" /\ cur[g] = s
                 THEN "constructing" ELSE "unset"]
    /\ UNCHANGED <<clients, borrow, nextId, clipWl, cur, wl, entry,
                   calls, ctorCalls, ctorOk, ctorFail, returned>>

\* A cell that hands out a second mutable reference while one is live.
CanBorrow_Always == TRUE

\* RefCell::borrow_mut hands out the one RefMut.  The accessors take
\* &mut self, and the RefCell lives on one thread on which an accessor is a
\* synchronous call (await_sync blocks that thread), so a queued call starts
\* only after the running one has returned and dropped its RefMut.
CanBorrow == borrow = 0

\* A binding whose body goes through tray() before the accessor it names.
Provide_ViaTray(f) ==
    /\ pc[f] = "queued"
    /\ CanBorrow
    /\ borrow' = f
    /\ entry' = [entry EXCEPT ![f] = clients]
    /\ cur' = [cur EXCEPT ![f] = TraySlot]
    /\ calls' = Bump(calls, req[f])
    /\ pc' = [pc EXCEPT ![f] = "lookup"]
    /\ UNCHANGED <<clients, nextId, clipWl, req, wl, result, reqState, log,
                   ctorCalls, ctorOk, ctorFail, returned, ncalls>>

\* provide(): self.ironbar.clients.borrow_mut().$method() enters $method,
\* and clipboard() at once enters wayland().
Provide(f) ==
    /\ pc[f] = "queued"
    /\ CanBorrow
    /\ borrow' = f
    /\ entry' = [entry EXCEPT ![f] = clients]
    /\ cur' = [cur EXCEPT ![f] = FirstCall(req[f])]
    /\ calls' = IF FirstCall(req[f]) = req[f] THEN Bump(calls, req[f])
                ELSE Bump(Bump(calls, req[f]), FirstCall(req[f]))
    /\ pc' = [pc EXCEPT ![f] = "lookup"]
    /\ UNCHANGED <<clients, nextId, clipWl, req, wl, result, reqState, log,
                   ctorCalls, ctorOk, ctorFail, returned, ncalls>>

\* A hit that rebuilds the client (a refresh) instead of returning it.
LookupHit_Refresh(f) ==
    /\ pc[f] = "lookup"
    /\ IsSome(clients, cur[f])
    /\ pc' = [pc EXCEPT ![f] = "ctor"]
    /\ ctorCalls' = Bump(ctorCalls, cur[f])
    /\ log' = [log EXCEPT ![f] = Append(@, <<"new", cur[f]>>)]
    /\ UNCHANGED <<clients, borrow, nextId, clipWl, req, cur, wl, result,
                   reqState, entry, calls, ctorOk, ctorFail, returned, ncalls>>

\* get_or_insert_with / or_insert_with on a slot that is Some: no closure.
LookupHit(f) ==
    /\ pc[f] = "lookup"
    /\ IsSome(clients, cur[f])
    /\ pc' = [pc EXCEPT ![f] = "have"]
    /\ UNCHANGED <<clients, borrow, nextId, clipWl, req, cur, wl, result,
                   reqState, entry, log, calls, ctorCalls, ctorOk, ctorFail,
                   returned, ncalls>>

\* The setup future is spawned instead of driven by await_sync: the slot
\* receives the handle at once and the call goes on without the setup
\* having completed.
LookupMiss_Spawn(f) ==
    /\ pc[f] = "lookup"
    /\ ~IsSome(clients, cur[f])
    /\ clients' = Insert(clients, cur[f], nextId)
    /\ nextId' = nextId + 1
    /\ clipWl' = IF cur[f] = ClipboardSlot THEN wl[f] ELSE clipWl
    /\ pc' = [pc EXCEPT ![f] = "have"]
    /\ ctorCalls' = Bump(ctorCalls, cur[f])
    /\ log' = [log EXCEPT ![f] = Append(@, <<"new", cur[f]>>)]
    /\ UNCHANGED <<borrow, req, cur, wl, result,
                   reqState, entry, calls, ctorOk, ctorFail, returned, ncalls>>

\* get_or_insert_with / or_insert_with on a slot that is None: the closure
\* is called, which invokes the kind's constructor.
LookupMiss(f) ==
    /\ pc[f] = "lookup"
    /\ ~IsSome(clients, cur[f])
    /\ pc' = [pc EXCEPT ![f] = "ctor"]
    /\ ctorCalls' = Bump(ctorCalls, cur[f])
    /\ log' = [log EXCEPT ![f] = Append(@, <<"new", cur[f]>>)]
    /\ UNCHANGED <<clients, borrow, nextId, clipWl, req, cur, wl, result,
                   reqState, entry, calls, ctorOk, ctorFail, returned, ncalls>>

\* The registry rebuilt around the new client
\* (*self = Self { slot: Some(..), ..Self::new() }): every other slot is lost.
CtorOk_Rebuild(f) ==
    /\ pc[f] = "ctor"
    /\ clients' = Insert(new, cur[f], nextId)
    /\ nextId' = nextId + 1
    /\ clipWl' = IF cur[f] = ClipboardSlot THEN wl[f] ELSE clipWl
    /\ ctorOk' = Bump(ctorOk, cur[f])
    /\ log' = [log EXCEPT ![f] = Append(@, <<"ok", cur[f]>>)]
    /\ pc' = [pc EXCEPT ![f] = "have"]
    /\ UNCHANGED <<borrow, req, cur, wl, result, reqState, entry, calls,
                   ctorCalls, ctorFail, returned, ncalls>>

\* The constructor returns; its value is stored in the slot.
CtorOk(f) ==
    /\ pc[f] = "ctor"
    /\ clients' = Insert(clients, cur[f], nextId)
    /\ nextId' = nextId + 1
    /\ clipWl' = IF cur[f] = ClipboardSlot THEN wl[f] ELSE clipWl
    /\ ctorOk' = Bump(ctorOk, cur[f])
    /\ log' = [log EXCEPT ![f] = Append(@, <<"ok", cur[f]>>)]
    /\ pc' = [pc EXCEPT ![f] = "have"]
    /\ UNCHANGED <<borrow, req, cur, wl, result, reqState, entry, calls,
                   ctorCalls, ctorFail, returned, ncalls>>

\* A failure that is swallowed: the accessor returns a handle that no
\* constructor completed (unwrap_or_default in place of expect).
CtorPanic_Swallowed(f) ==
    /\ pc[f] = "ctor"
    /\ pc' = [pc EXCEPT ![f] = "idle"]
    /\ borrow' = 0
    /\ result' = [result EXCEPT ![f] = nextId]
    /\ ctorFail' = Bump(ctorFail, cur[f])
    /\ log' = [log EXCEPT ![f] = Append(@, <<"panic", cur[f]>>)]
    /\ wl' = [wl EXCEPT ![f] = None]
    /\ entry' = [entry EXCEPT ![f] = new]
    /\ UNCHANGED <<clients, nextId, clipWl, req, cur, reqState,
                   calls, ctorCalls, ctorOk, returned, ncalls>>

\* A failure of the dependency that is masked: the accessor that called it
\* carries on without the dependency's handle.
CtorPanic_Masked(f) ==
    /\ pc[f] = "ctor"
    /\ ctorFail' = Bump(ctorFail, cur[f])
    /\ log' = [log EXCEPT ![f] = Append(@, <<"panic", cur[f]>>)]
    /\ IF cur[f] # req[f]
       THEN /\ pc' = [pc EXCEPT ![f] = "lookup"]
            /\ cur' = [cur EXCEPT ![f] = req[f]]
            /\ UNCHANGED <<borrow, wl, entry>>
       ELSE /\ pc' = [pc EXCEPT ![f] = "panicked"]
            /\ borrow' = 0
            /\ wl' = [wl EXCEPT ![f] = None]
            /\ entry' = [entry EXCEPT ![f] = new]
            /\ UNCHANGED cur
    /\ UNCHANGED <<clients, nextId, clipWl, req, result, reqState,
                   calls, ctorCalls, ctorOk, returned, ncalls>>

\* A slot that is filled with a placeholder before its constructor runs: a
\* failed construction leaves the placeholder cached.
CtorPanic_Poisoned(f) ==
    /\ pc[f] = "ctor"
    /\ pc' = [pc EXCEPT ![f] = "panicked"]
    /\ borrow' = 0
    /\ clients' = Insert(clients, cur[f], nextId)
    /\ nextId' = nextId + 1
    /\ ctorFail' = Bump(ctorFail, cur[f])
    /\ log' = [log EXCEPT ![f] = Append(@, <<"panic", cur[f]>>)]
    /\ wl' = [wl EXCEPT ![f] = None]
    /\ entry' = [entry EXCEPT ![f] = new]
    /\ UNCHANGED <<clipWl, req, cur, result, reqState,
                   calls, ctorCalls, ctorOk, returned, ncalls>>

\* The constructor panics (workspaces: expect() on an Err): the closure
\* never returns a value, unwinding drops the RefMut and ends the flow.
CtorPanic(f) ==
    /\ pc[f] = "ctor"
    /\ pc' = [pc EXCEPT ![f] = "panicked"]
    /\ borrow' = 0
    /\ ctorFail' = Bump(ctorFail, cur[f])
    /\ log' = [log EXCEPT ![f] = Append(@, <<"panic", cur[f]>>)]
    /\ wl' = [wl EXCEPT ![f] = None]
    /\ entry' = [entry EXCEPT ![f] = new]
    /\ UNCHANGED <<clients, nextId, clipWl, req, cur, result, reqState,
                   calls, ctorCalls, ctorOk, returned, ncalls>>

\* A constructor that is given up after a timeout: the call is cancelled and
\* its RefMut dropped, though the flow never gets a handle.
CtorHang_Cancelled(f) ==
    /\ pc[f] = "ctor"
    /\ pc' = [pc EXCEPT ![f] = "hung"]
    /\ borrow' = 0
    /\ UNCHANGED <<clients, nextId, clipWl, req, cur, wl, result,
                   reqState, entry, log, calls, ctorCalls, ctorOk, ctorFail,
                   returned, ncalls>>

\* The constructor never returns: the flow stays inside it, RefMut in hand.
CtorHang(f) ==
    /\ pc[f] = "ctor"
    /\ pc' = [pc EXCEPT ![f] = "hung"]
    /\ UNCHANGED <<clients, borrow, nextId, clipWl, req, cur, wl, result,
                   reqState, entry, log, calls, ctorCalls, ctorOk, ctorFail,
                   returned, ncalls>>

\* clipboard() building a display-server client of its own
\* (wayland::Client::new() in place of self.wayland()).
InnerReturn_OwnWayland(f) ==
    /\ pc[f] = "have"
    /\ cur[f] # req[f]
    /\ wl' = [wl EXCEPT ![f] = nextId]
    /\ nextId' = nextId + 1
    /\ returned' = [returned EXCEPT ![cur[f]] = @ \cup {Get(clients, cur[f])}]
    /\ cur' = [cur EXCEPT ![f] = req[f]]
    /\ pc' = [pc EXCEPT ![f] = "lookup"]
    /\ UNCHANGED <<clients, borrow, clipWl, req, result, reqState,
                   entry, log, calls, ctorCalls, ctorOk, ctorFail>>
    /\ UNCHANGED ncalls

\* wayland() returns its clone into clipboard()'s local, and clipboard()
\* goes on to its own get_or_insert_with.
InnerReturn(f) ==
    /\ pc[f] = "have"
    /\ cur[f] # req[f]
    /\ wl' = [wl EXCEPT ![f] = Get(clients, cur[f])]
    /\ returned' = [returned EXCEPT ![cur[f]] = @ \cup {Get(clients, cur[f])}]
    /\ cur' = [cur EXCEPT ![f] = req[f]]
    /\ pc' = [pc EXCEPT ![f] = "lookup"]
    /\ UNCHANGED <<clients, borrow, nextId, clipWl, req, result, reqState,
                   entry, log, calls, ctorCalls, ctorOk, ctorFail, ncalls>>

\* An accessor that clones the client instead of the Arc: every caller gets
\* an instance of its own.
Return_DeepCopy(f) ==
    /\ pc[f] = "have"
    /\ cur[f] = req[f]
    /\ result' = [result EXCEPT ![f] = nextId]
    /\ returned' = [returned EXCEPT ![cur[f]] = @ \cup {nextId}]
    /\ nextId' = nextId + 1
    /\ borrow' = 0
    /\ pc' = [pc EXCEPT ![f] = "idle"]
    /\ wl' = [wl EXCEPT ![f] = None]
    /\ entry' = [entry EXCEPT ![f] = new]
    /\ UNCHANGED <<clients, clipWl, req, cur, reqState,
                   log, calls, ctorCalls, ctorOk, ctorFail, ncalls>>

\* provide() returning the handle while its RefMut is leaked
\* (mem::forget of the guard): the registry stays borrowed.
Return_Leak(f) ==
    /\ pc[f] = "have"
    /\ cur[f] = req[f]
    /\ result' = [result EXCEPT ![f] = Get(clients, cur[f])]
    /\ returned' = [returned EXCEPT ![cur[f]] = @ \cup {Get(clients, cur[f])}]
    /\ pc' = [pc EXCEPT ![f] = "idle"]
    /\ wl' = [wl EXCEPT ![f] = None]
    /\ entry' = [entry EXCEPT ![f] = new]
    /\ UNCHANGED <<clients, borrow, nextId, clipWl, req, cur, reqState,
                   log, calls, ctorCalls, ctorOk, ctorFail, ncalls>>

\* The accessor returns the clone of what the slot holds; provide() returns
\* it and the RefMut is dropped.
Return(f) ==
    /\ pc[f] = "have"
    /\ cur[f] = req[f]
    /\ result' = [result EXCEPT ![f] = Get(clients, cur[f])]
    /\ returned' = [returned EXCEPT ![cur[f]] = @ \cup {Get(clients, cur[f])}]
    /\ borrow' = 0
    /\ pc' = [pc EXCEPT ![f] = "idle"]
    /\ wl' = [wl EXCEPT ![f] = None]
    /\ entry' = [entry EXCEPT ![f] = new]
    /\ UNCHANGED <<clients, nextId, clipWl, req, cur, reqState,
                   log, calls, ctorCalls, ctorOk, ctorFail, ncalls>>

Next ==
    \E f \in Flows :
        \/ \E s \in Slots : Request(f, s)
        \/ Provide(f)
        \/ LookupHit(f)
        \/ LookupMiss(f)
        \/ CtorOk(f)
        \/ CtorPanic(f)
        \/ CtorHang(f)
        \/ InnerReturn(f)
        \/ Return(f)

Spec == Init /\ [][Next]_vars

\* The steps of the call of flow f, every constructor it invokes returning.
Step(f) ==
    \/ Provide(f)
    \/ LookupHit(f)
    \/ LookupMiss(f)
    \/ CtorOk(f)
    \/ InnerReturn(f)
    \/ Return(f)

\* The program in an environment where no constructor panics or hangs.
NextCompleting ==
    \E f \in Flows :
        \/ \E s \in Slots : Request(f, s)
        \/ Provide(f)
        \/ LookupHit(f)
        \/ LookupMiss(f)
        \/ CtorOk(f)
        \/ InnerReturn(f)
        \/ Return(f)

\* A call that can take a step eventually takes one: the thread runs the
\* synchronous accessor to its end, and a consumer whose call is due is
\* eventually run.
Fairness == \A f \in Flows : WF_vars(Step(f))

SpecCompleting == Init /\ [][NextCompleting]_vars /\ Fairness

\* ----------------------------------------------------------------- claims

\* A flow whose call has returned a handle.
Returned(f) == pc[f] = "idle" /\ result[f] # None

\* No call of the accessor of s has failed so far: neither its own
\* constructor nor, inside it, the constructor of its dependency.
AllCallsSucceeded(s) ==
    /\ ctorFail[s] = 0
    /\ \A f \in Flows : ~(pc[f] = "panicked" /\ req[f] = s)

\* A flow that is executing an accessor, RefMut in hand.
Inside(f) == pc[f] \in {"lookup", "ctor", "have", "hung"}

\* C1: for each single-instance kind, at most one client is ever built; every
\* call that returned, returned the handle the slot holds; where none of the
\* kind's constructions failed the constructor was invoked exactly once, and
\* where no call of the accessor failed it was the first call that invoked it.
C1_SingleConstruction ==
    /\ \A s \in SingleSlots :
        /\ ctorOk[s] <= 1
        /\ returned[s] \subseteq {Get(clients, s)}
        /\ returned[s] # {} =>
            /\ Get(clients, s) # None
            /\ ctorOk[s] = 1
            /\ ctorFail[s] = 0 => ctorCalls[s] = 1
    /\ \A f \in Flows :
        /\ (pc[f] = "ctor" /\ cur[f] \in SingleSlots /\ AllCallsSucceeded(cur[f]))
            => calls[cur[f]] = 1
        /\ (Returned(f) /\ req[f] \in SingleSlots)
            => result[f] = Get(clients, req[f])

\* Three calls of tray() have returned, on one construction.
C1_Witness ==
    /\ calls[TraySlot] = 3
    /\ \A f \in Flows : pc[f] = "idle"
    /\ ctorCalls[TraySlot] = 1
    /\ \E f \in Flows : req[f] = TraySlot /\ result[f] = clients.tray
    /\ clients.tray # None

\* C2: for music, no sub-key's client is built twice, two calls with the
\* same sub-key return the same handle, and where no construction failed
\* the constructor has been invoked once for each sub-key that some
\* finished call asked for and never for a sub-key no call asked for.
C2_PerKeyConstruction ==
    /\ \A s \in MusicSlots :
        /\ ctorOk[s] <= 1
        /\ returned[s] \subseteq {Get(clients, s)}
        /\ calls[s] = 0 => ctorCalls[s] = 0
        /\ returned[s] # {} =>
            /\ Get(clients, s) # None
            /\ ctorOk[s] = 1
            /\ ctorFail[s] = 0 => ctorCalls[s] = 1
    /\ \A f \in Flows :
        (Returned(f) /\ req[f] \in MusicSlots)
            => result[f] = Get(clients, req[f])

\* music(a), music(b), music(a): two constructions, and the last call, for
\* a sub-key already in the map, returned the handle the map holds.
C2_Witness ==
    /\ calls[<<"music", 1>>] = 2
    /\ calls[<<"music", 2>>] = 1
    /\ \A f \in Flows : pc[f] = "idle"
    /\ ctorCalls[<<"music", 1>>] = 1
    /\ ctorCalls[<<"music", 2>>] = 1
    /\ \E f \in Flows :
        /\ req[f] = <<"music", 1>>
        /\ reqState[f] = "set"
        /\ result[f] = clients.music[1]

\* C3: the music map holds distinct handles under distinct sub-keys, and
\* the handle music(a) returns is never the one cached for a sub-key b # a.
C3_KeysDoNotShare ==
    /\ \A t, u \in DOMAIN clients.music :
        t # u => clients.music[t] # clients.music[u]
    /\ DOMAIN clients.music \subseteq ClientTypes
    /\ \A s, r \in MusicSlots : s # r => returned[s] \cap returned[r] = {}
    /\ \A f \in Flows : \A r \in MusicSlots :
        (Returned(f) /\ req[f] \in MusicSlots /\ r # req[f])
            => result[f] # Get(clients, r)

\* Both sub-keys are in the map and a call for each has returned.
C3_Witness ==
    /\ DOMAIN clients.music = {1, 2}
    /\ \E f, g \in Flows :
        /\ Returned(f) /\ req[f] = <<"music", 1>>
        /\ Returned(g) /\ req[g] = <<"music", 2>>
        /\ result[f] # result[g]

\* C4: before any call the registry is Clients::new(); a slot whose accessor
\* was never entered is unset and its constructor was never invoked.
C4_Laziness ==
    /\ (\A s \in Slots : calls[s] = 0) => clients = new
    /\ \A s \in Slots :
        calls[s] = 0 => (ctorCalls[s] = 0 /\ ~IsSome(clients, s))

\* workspaces has been built while tray and wayland, never asked for, are
\* still unset.
C4_Witness ==
    /\ IsSome(clients, WorkspacesSlot)
    /\ calls[TraySlot] = 0
    /\ calls[WaylandSlot] = 0
    /\ clients.tray = None
    /\ clients.wayland = None

\* C5: whenever the clipboard constructor has been started, the wayland
\* constructor has completed and the wayland slot is set; inside the call
\* that starts it, the local handed to it is the handle of the wayland slot
\* and a wayland construction of the same call has ended before it starts.
C5_DependencyOrder ==
    /\ ctorCalls[ClipboardSlot] > 0 =>
        (ctorOk[WaylandSlot] = 1 /\ IsSome(clients, WaylandSlot))
    /\ \A f \in Flows :
        (pc[f] \in {"ctor", "hung"} /\ cur[f] = ClipboardSlot) =>
            /\ wl[f] = clients.wayland
            /\ wl[f] # None
    /\ \A f \in Flows : \A i \in 1..Len(log[f]) :
        log[f][i] = <<"new", ClipboardSlot>> =>
            /\ \A j \in 1..Len(log[f]) :
                log[f][j][2] = WaylandSlot => j < i
            /\ <<"panic", WaylandSlot>> \notin Range(log[f])
            /\ <<"new", WaylandSlot>> \in Range(log[f])
                => <<"ok", WaylandSlot>> \in Range(log[f])

\* clipboard() is the first call on the registry and its constructor has
\* just been started, after the wayland constructor ran inside the same call.
C5_Witness ==
    \E f \in Flows :
        /\ ncalls = 1
        /\ req[f] = ClipboardSlot
        /\ pc[f] = "ctor"
        /\ log[f] = << <<"new", WaylandSlot>>, <<"ok", WaylandSlot>>,
                       <<"new", ClipboardSlot>> >>

\* C6: once clipboard() has returned, the wayland and clipboard slots are
\* both set; every wayland() call returns the handle of the wayland slot,
\* which is the one given to the clipboard client; at most one wayland
\* client is ever built, on one invocation where no construction failed.
C6_SharedDependency ==
    /\ returned[ClipboardSlot] # {} =>
        (IsSome(clients, WaylandSlot) /\ IsSome(clients, ClipboardSlot))
    /\ IsSome(clients, ClipboardSlot) =>
        (IsSome(clients, WaylandSlot) /\ clipWl = clients.wayland)
    /\ returned[WaylandSlot] \subseteq {clients.wayland} \ {None}
    /\ \A f \in Flows :
        (Returned(f) /\ req[f] = WaylandSlot) => result[f] = clients.wayland
    /\ ctorOk[WaylandSlot] <= 1
    /\ ctorFail[WaylandSlot] = 0 => ctorCalls[WaylandSlot] <= 1

\* One flow's clipboard() built both clients on a fresh registry; another
\* flow's later wayland() returned the handle built then.
C6_Witness ==
    \E f, g \in Flows :
        /\ f # g
        /\ pc[g] = "idle"
        /\ req[g] = ClipboardSlot
        /\ log[g] = << <<"new", WaylandSlot>>, <<"ok", WaylandSlot>>,
                       <<"new", ClipboardSlot>>, <<"ok", ClipboardSlot>> >>
        /\ Returned(f)
        /\ req[f] = WaylandSlot
        /\ reqState[f] = "set"
        /\ log[f] = <<>>
        /\ result[f] = clipWl
        /\ ctorCalls[WaylandSlot] = 1

C8_SlotMonotonic ==
    [][\A s \in Slots :
        /\ IsSome(clients, s) =>
            (IsSome(clients', s) /\ Get(clients', s) = Get(clients, s))
        /\ (~IsSome(clients, s) /\ IsSome(clients', s)) =>
            /\ ctorOk[s] = 0
            /\ ctorOk'[s] = 1
            /\ borrow # 0 /\ cur[borrow] = s
            /\ AllCallsSucceeded(s) => calls[s] = 1]_vars

\* A slot is set and calls of its accessor came after the one that set it.
C8_Witness ==
    /\ IsSome(clients, UpowerSlot)
    /\ calls[UpowerSlot] >= 2
    /\ returned[UpowerSlot] = {clients.upower}
    /\ \A f \in Flows : pc[f] = "idle"

\* C9: a workspaces() call whose constructor failed has returned nothing
\* to its caller and its flow is terminated by the panic.
C9_FatalFailure ==
    \A f \in Flows :
        (req[f] = WorkspacesSlot /\ <<"panic", WorkspacesSlot>> \in Range(log[f]))
            =>  /\ pc[f] = "panicked"
                /\ result[f] = None
                /\ log[f] = << <<"new", WorkspacesSlot>>,
                               <<"panic", WorkspacesSlot>> >>

\* The workspaces constructor failed on an unset slot; the slot is still
\* unset and the RefCell is free again.
C9_Witness ==
    \E f \in Flows :
        /\ pc[f] = "panicked"
        /\ req[f] = WorkspacesSlot
        /\ reqState[f] = "unset"
        /\ result[f] = None
        /\ clients.workspaces = None
        /\ borrow = 0

\* C10: a clipboard() call in which the wayland constructor failed is
\* terminated by that panic: it returned nothing, never started the
\* clipboard constructor and cached no handle.
C10_DependencyFailure ==
    \A f \in Flows :
        (req[f] = ClipboardSlot /\ <<"panic", WaylandSlot>> \in Range(log[f]))
            =>  /\ pc[f] = "panicked"
                /\ result[f] = None
                /\ log[f] = << <<"new", WaylandSlot>>,
                               <<"panic", WaylandSlot>> >>

\* clipboard() on a fresh registry, the wayland constructor failed: no
\* clipboard construction was started and both slots are unset.
C10_Witness ==
    \E f \in Flows :
        /\ pc[f] = "panicked"
        /\ req[f] = ClipboardSlot
        /\ cur[f] = WaylandSlot
        /\ ctorCalls[ClipboardSlot] = 0
        /\ clients.clipboard = None
        /\ clients.wayland = None
        /\ result[f] = None

\* The step in which the call of flow f returns to its consumer.
Returns(f) == pc[f] = "have" /\ cur[f] = req[f] /\ pc'[f] = "idle"

\* C11: whenever provide() returns, the handle it returns is the one every
\* earlier provide() for the same capability returned, to this consumer or
\* to any other, and it is the handle the registry holds for it.
C11_ProvideSameInstance ==
    [][\A f \in Flows : Returns(f) =>
        /\ result'[f] # None
        /\ result'[f] = Get(clients', req[f])
        /\ \A h \in returned[req[f]] : h = result'[f]
        /\ \A g \in Flows :
            (Returned(g) /\ req[g] = req[f]) => result[g] = result'[f]]_vars

\* Only the first consumer has called provide(), twice for upower: its
\* second call found the slot set and returned the cached handle.
C11_Witness ==
    /\ calls[UpowerSlot] = 2
    /\ ~Called(2)
    /\ Returned(1)
    /\ req[1] = UpowerSlot
    /\ reqState[1] = "set"
    /\ log[1] = <<>>
    /\ result[1] = clients.upower
    /\ returned[UpowerSlot] = {clients.upower}

\* The kinds whose constructor is an asynchronous setup driven by await_sync.
AsyncSlots == {TraySlot, UpowerSlot}

\* The setup of slot s is running in the call of flow f.
SettingUp(f, s) == pc[f] \in {"ctor", "hung"} /\ cur[f] = s

\* C12: for tray and upower, while the setup runs the slot is unset and the
\* call does not return; the slot becomes set in the very step in which the
\* setup completes; a handle that is stored or returned is one whose setup
\* has completed.
C12_Suspension ==
    [][\A s \in AsyncSlots :
        /\ \A f \in Flows : SettingUp(f, s) =>
            /\ ~IsSome(clients, s)
            /\ pc'[f] # "idle"
            /\ result'[f] = None
        /\ (~IsSome(clients, s) /\ IsSome(clients', s)) =>
            /\ borrow # 0
            /\ pc[borrow] = "ctor"
            /\ cur[borrow] = s
            /\ ctorOk'[s] = ctorOk[s] + 1
        /\ IsSome(clients', s) =>
            /\ ctorOk'[s] = 1
            /\ \A f \in Flows : ~SettingUp(f, s)'
        /\ \A f \in Flows : (Returns(f) /\ req[f] = s) =>
            /\ ctorOk[s] = 1
            /\ ctorCalls[s] = ctorOk[s] + ctorFail[s]
            /\ result'[f] = Get(clients, s)]_vars

\* The tray setup runs in the first flow's call, the slot is still unset,
\* and the second flow's tray() call waits behind it.
C12_Witness ==
    /\ SettingUp(1, TraySlot)
    /\ pc[1] = "ctor"
    /\ ~IsSome(clients, TraySlot)
    /\ result[1] = None
    /\ pc[2] = "queued"
    /\ req[2] = TraySlot

\* Option::get_or_insert_with / Entry::or_insert_with as one function of the
\* registry: the registry afterwards, h being the value the closure returns.
GetOrInsertWith(c, s, h) == IF IsSome(c, s) THEN c ELSE Insert(c, s, h)

\* Clients::wayland(), called directly on registry c; n is the identity the
\* next Arc::new yields.
wayland(c, n) == GetOrInsertWith(c, WaylandSlot, n)

\* Clients::clipboard(), called directly on registry c.
clipboard(c, n) ==
    GetOrInsertWith(wayland(c, n), ClipboardSlot,
                    IF IsSome(c, WaylandSlot) THEN n ELSE n + 1)

\* The accessor for slot s called directly on registry c, every constructor
\* it invokes returning: the registry it leaves.
Accessor(c, s, n) ==
    CASE s = WaylandSlot -> wayland(c, n)
      [] s = ClipboardSlot -> clipboard(c, n)
      [] OTHER -> GetOrInsertWith(c, s, n)

\* The accessor for slot s called directly on registry c, the constructor of
\* slot d panicking: the registry the unwinding leaves.
AccessorPanicked(c, s, d, n) ==
    IF s = ClipboardSlot /\ d = ClipboardSlot THEN wayland(c, n) ELSE c

\* The number of constructors that have returned in the call of flow f.
Constructed(f) == Cardinality({i \in DOMAIN log[f] : log[f][i][1] = "ok"})

\* C13: when provide() returns, the registry is the one the bound accessor
\* leaves when called directly on the registry provide() borrowed, and the
\* handle returned is the one that accessor returns; when provide() panics,
\* the registry is the one the panicking accessor leaves.
C13_BindingEquivalence ==
    [][\A f \in Flows :
        /\ Returns(f) =>
            /\ clients' = Accessor(entry[f], req[f], nextId - Constructed(f))
            /\ result'[f] =
                Get(Accessor(entry[f], req[f], nextId - Constructed(f)), req[f])
        /\ (pc[f] = "ctor" /\ pc'[f] = "panicked") =>
            clients' = AccessorPanicked(entry[f], req[f], cur[f],
                                        nextId - Constructed(f))]_vars

\* provide() for the clipboard returned after building both clients on a
\* registry that held neither, while the tray slot stayed unset.
C13_Witness ==
    /\ Returned(1)
    /\ req[1] = ClipboardSlot
    /\ reqState[1] = "unset"
    /\ Len(log[1]) = 4
    /\ clients = clipboard(new, 1)
    /\ result[1] = Get(clipboard(new, 1), ClipboardSlot)

\* Flow f is in a clipboard() call that found the wayland slot unset and is
\* inside the wayland constructor.
InWaylandOfClipboard(f) ==
    /\ pc[f] \in {"ctor", "hung"}
    /\ req[f] = ClipboardSlot
    /\ cur[f] = WaylandSlot

\* C14: while clipboard() is inside the wayland constructor the clipboard
\* slot is unset, no clipboard constructor has started and the call has no
\* result; once that constructor hangs, every later step leaves the call
\* hung, the registry as it is and the clipboard constructor unstarted, so
\* the call never returns and the clipboard slot stays unset.
C14_HangPropagation ==
    [][\A f \in Flows : InWaylandOfClipboard(f) =>
        /\ ~IsSome(clients, WaylandSlot)
        /\ ~IsSome(clients, ClipboardSlot)
        /\ ctorCalls[ClipboardSlot] = 0
        /\ result[f] = None
        /\ borrow = f
        /\ pc[f] = "hung" =>
            /\ pc'[f] = "hung"
            /\ InWaylandOfClipboard(f)'
            /\ clients' = clients
            /\ ctorCalls' = ctorCalls
            /\ result'[f] = None
            /\ borrow' = f
            /\ ~IsSome(clients', ClipboardSlot)]_vars

\* The first flow's clipboard() call hangs in the wayland constructor and
\* the second flow's clipboard() call is queued behind it.
C14_Witness ==
    /\ InWaylandOfClipboard(1)
    /\ pc[1] = "hung"
    /\ pc[2] = "queued"
    /\ req[2] = ClipboardSlot
    /\ ~IsSome(clients, ClipboardSlot)
    /\ ncalls = MaxCalls

\* The step in which the constructor invoked by flow f fails.
Fails(f) == pc[f] = "ctor" /\ pc'[f] = "panicked"

\* C15: the step in which a constructor fails writes no slot and leaves the
\* failing kind's slot unset; a kind none of whose constructions succeeded
\* has no cached entry; and a later lookup of a kind that failed before,
\* finding the slot unset, invokes the constructor again.
C15_FailureLeavesUnset ==
    [][/\ \A f \in Flows : Fails(f) =>
            /\ clients' = clients
            /\ ~IsSome(clients', cur[f])
            /\ ctorOk' = ctorOk
            /\ ctorFail'[cur[f]] = ctorFail[cur[f]] + 1
            /\ \A s \in Slots \ {FirstCall(req[f])} :
                Get(clients', s) = Get(entry[f], s)
       /\ \A s \in Slots : (ctorFail'[s] > 0 /\ ctorOk'[s] = 0) =>
            ~IsSome(clients', s)
       /\ \A f \in Flows :
            (pc[f] = "lookup" /\ ctorFail[cur[f]] > 0 /\ pc'[f] # "lookup") =>
                IF IsSome(clients, cur[f])
                THEN pc'[f] = "have" /\ ctorOk[cur[f]] = 1
                ELSE /\ pc'[f] = "ctor"
                     /\ ctorCalls'[cur[f]] = ctorCalls[cur[f]] + 1]_vars

\* The workspaces constructor failed in the first flow's call; the slot is
\* unset, and the second flow's workspaces() call has invoked it again.
C15_Witness ==
    /\ pc[1] = "panicked"
    /\ req[1] = WorkspacesSlot
    /\ ctorFail[WorkspacesSlot] = 1
    /\ ~IsSome(clients, WorkspacesSlot)
    /\ pc[2] = "ctor"
    /\ cur[2] = WorkspacesSlot
    /\ ctorCalls[WorkspacesSlot] = 2

\* Flow f is in the body of clipboard() past its first statement, the local
\* `wayland` bound.
HoldsWayland(f) ==
    /\ req[f] = ClipboardSlot
    /\ cur[f] = ClipboardSlot
    /\ pc[f] \in {"lookup", "ctor", "have", "hung"}

\* C16: if the clipboard slot is set, the wayland slot is set and the handle
\* the clipboard constructor was given is the handle in the wayland slot;
\* the local a clipboard() call passes to the constructor is that handle too.
C16_ClipboardUsesCachedWayland ==
    /\ IsSome(clients, ClipboardSlot) =>
        /\ IsSome(clients, WaylandSlot)
        /\ clipWl # None
        /\ clipWl = Get(clients, WaylandSlot)
    /\ ~IsSome(clients, ClipboardSlot) => clipWl = None
    /\ \A f \in Flows : HoldsWayland(f) =>
        /\ wl[f] # None
        /\ wl[f] = Get(clients, WaylandSlot)

\* The first flow's wayland() built the display-server client; the second
\* flow's clipboard() found it cached and built the clipboard client on it.
C16_Witness ==
    /\ Returned(1)
    /\ req[1] = WaylandSlot
    /\ log[1] = << <<"new", WaylandSlot>>, <<"ok", WaylandSlot>> >>
    /\ pc[2] = "have"
    /\ HoldsWayland(2)
    /\ log[2] = << <<"new", ClipboardSlot>>, <<"ok", ClipboardSlot>> >>
    /\ IsSome(clients, ClipboardSlot)
    /\ clipWl = result[1]

\* The slots an accessor call for slot s may write: its own, and for
\* clipboard() the wayland slot.
MayWrite(s) == {s, FirstCall(s)}

\* C17: no step outside an accessor call writes the registry; a step of the
\* call for slot K writes at most the slot it is at, and from the call's
\* entry on every slot other than K (and wayland, for clipboard) holds what
\* it held at entry, other music keys included; a call that found its slot
\* and its dependency set leaves the registry as it was at entry.
C17_Frame ==
    [][/\ borrow = 0 => clients' = clients
       /\ \A f \in Flows : borrow = f =>
            /\ \A s \in Slots \ {cur[f]} : Get(clients', s) = Get(clients, s)
            /\ \A s \in Slots \ MayWrite(req[f]) :
                Get(clients', s) = Get(entry[f], s)
            /\ (\A s \in MayWrite(req[f]) : IsSome(entry[f], s)) =>
                clients' = entry[f]]_vars

\* A music() call for the first player type built its client on a registry
\* that held the tray client and the second player type's client, and
\* changed that one map entry only.
C17_Witness ==
    \E f \in Flows :
        /\ pc[f] = "have"
        /\ req[f] = <<"music", 1>>
        /\ ~IsSome(entry[f], req[f])
        /\ IsSome(entry[f], <<"music", 2>>)
        /\ IsSome(entry[f], TraySlot)
        /\ clients = Insert(entry[f], req[f], nextId - 1)

\* C18: with every invoked constructor completing, every call that has been
\* made returns a handle, and when it has returned the slot or map entry it
\* asked for is set and holds that handle.
C18_Termination ==
    \A f \in Flows :
        (pc[f] \in {"queued", "lookup", "ctor", "have"}) ~>
            (/\ Returned(f)
             /\ IsSome(clients, req[f])
             /\ result[f] = Get(clients, req[f]))

\* Both consumers' calls have returned handles, the second one's a
\* clipboard() call that had to build both clients while the first one's
\* call was made.
C18_Witness ==
    /\ Returned(1)
    /\ Returned(2)
    /\ req[2] = ClipboardSlot
    /\ Len(log[2]) = 4
    /\ ncalls = MaxCalls
    /\ IsSome(clients, req[1])
    /\ result[2] = Get(clients, ClipboardSlot)

====
